---- MODULE Spec2Model ----
(***************************************************************************)
(* volo-build gRPC backend (volo-build/src/grpc_backend.rs).               *)
(*                                                                         *)
(* The generator turns a Service of the IR into a code unit: four envelope *)
(* enums, two path -> variant decode tables, one client method per IR      *)
(* method and one server dispatch arm per IR method.  The model has two    *)
(* layers: the generator (codegen_service_impl and its helpers, pure       *)
(* functions of the IR), and the program it emits (the client method body, *)
(* Service::call on the server), modelled as a state machine over one call *)
(* with a step at every await.                                             *)
(*                                                                         *)
(* Strings are sequences of one-character strings, so that formatting and  *)
(* case conversion are computed rather than assumed.                       *)
(***************************************************************************)
EXTENDS Naturals, Sequences, FiniteSets

VARIABLES
    service,     \* the rir::Service handed to the backend
    gen,         \* what codegen_service_impl emitted for it
    pc,          \* position of the call in flight
    decoded,     \* last result of a from_body lookup (SpecGen)
    wire,        \* request held by the transport while client.call is awaited
    link,        \* TRUE when the server's inbound request came off the wire
    s_in,        \* server: cx.rpc_info.method() and req of Service::call
    s_loc,       \* server: locals of the dispatch arm
    handlerLog,  \* server: calls made on the user-supplied service
    s_resp,      \* server: `resp`, what the handler returned
    s_out,       \* server: what Service::call returned
    c_m,         \* client: index of the client method running
    c_resp,      \* client: `resp`, what client.call returned
    c_loc,       \* client: locals of build_client_resp
    c_out        \* client: what the client method returned

vars == <<service, gen, pc, decoded, wire, link, s_in, s_loc, handlerLog,
          s_resp, s_out, c_m, c_resp, c_loc, c_out>>

rtvars == <<wire, link, s_in, s_loc, handlerLog, s_resp, s_out, c_m, c_resp,
            c_loc, c_out>>

----------------------------------------------------------------------------
(* Bounds *)

MaxNameLen == 2   \* longest method name drawn for the generator
MaxMethods == 2   \* most methods of a service drawn for the generator
MaxLen == 2       \* longest message stream

NoVal == [tag |-> "none"]

----------------------------------------------------------------------------
(* Strings *)

Lower == {"a"}
Upper == {"A"}
Alphabet == Lower \cup Upper \cup {"_"}

is_lowercase(c) == c \in Lower
is_uppercase(c) == c \in Upper
is_alphanumeric(c) == c \in Lower \cup Upper

to_uppercase(c) == IF c = "a" THEN "A" ELSE c
to_lowercase(c) == IF c = "A" THEN "a" ELSE c

RECURSIVE Concat(_)
Concat(ss) == IF ss = <<>> THEN <<>> ELSE Head(ss) \o Concat(Tail(ss))

RECURSIVE join(_, _)
join(ss, sep) ==
    IF ss = <<>> THEN <<>>
    ELSE IF Len(ss) = 1 THEN Head(ss)
    ELSE Head(ss) \o sep \o join(Tail(ss), sep)

\* str::split(|c| !c.is_alphanumeric()): the pieces between separators,
\* empty pieces included.
RECURSIVE split(_, _, _)
split(s, i, cur) ==
    IF i > Len(s) THEN <<cur>>
    ELSE IF is_alphanumeric(s[i]) THEN split(s, i + 1, Append(cur, s[i]))
    ELSE <<cur>> \o split(s, i + 1, <<>>)

\* The scan of one piece for case boundaries: a boundary after a lowercase
\* character followed by an uppercase one, and before the last of a run of
\* uppercase characters that is followed by a lowercase one.
\* mode is "B" (boundary), "L" (lowercase) or "U" (uppercase).
RECURSIVE words_of(_, _, _, _)
words_of(w, i, init, mode) ==
    IF i > Len(w) THEN <<>>
    ELSE IF i = Len(w) THEN <<SubSeq(w, init, Len(w))>>
    ELSE
        LET c == w[i]
            next == w[i + 1]
            next_mode == IF is_lowercase(c) THEN "L"
                         ELSE IF is_uppercase(c) THEN "U" ELSE mode
        IN  IF next_mode = "L" /\ is_uppercase(next)
            THEN <<SubSeq(w, init, i)>> \o words_of(w, i + 1, i + 1, "B")
            ELSE IF mode = "U" /\ is_uppercase(c) /\ is_lowercase(next)
            THEN <<SubSeq(w, init, i - 1)>> \o words_of(w, i + 1, i, "B")
            ELSE words_of(w, i + 1, init, next_mode)

RECURSIVE words_all(_)
words_all(pieces) ==
    IF pieces = <<>> THEN <<>>
    ELSE words_of(Head(pieces), 1, 1, "B") \o words_all(Tail(pieces))

words(s) == words_all(split(s, 1, <<>>))

lowercase(w) == [i \in 1..Len(w) |-> to_lowercase(w[i])]
capitalize(w) ==
    [i \in 1..Len(w) |-> IF i = 1 THEN to_uppercase(w[i]) ELSE to_lowercase(w[i])]

MapSeq(ws, i, kind) == IF kind = "cap" THEN capitalize(ws[i]) ELSE lowercase(ws[i])

to_upper_camel_case(s) ==
    LET ws == words(s) IN Concat([i \in 1..Len(ws) |-> MapSeq(ws, i, "cap")])

to_snake_case(s) ==
    LET ws == words(s) IN join([i \in 1..Len(ws) |-> MapSeq(ws, i, "low")], <<"_">>)

----------------------------------------------------------------------------
(* Runtime values the emitted code handles *)

Keys == {"k1", "k2"}
MdEmpty == [k \in Keys |-> "-"]
MdLead == [k \in Keys |-> "x"]
MdTrail == [k \in Keys |-> IF k = "k1" THEN "y" ELSE "-"]

\* MetadataMap::merge(&mut self, other): the entries of other are put into
\* self, replacing the entries of self under the same key.
merge(self, other) == [k \in Keys |-> IF other[k] # "-" THEN other[k] ELSE self[k]]

\* Status::new(code, message): a status with no metadata.
Status_new(code, message) ==
    [code |-> code, message |-> message, metadata |-> MdEmpty]

\* Status::unimplemented(message)
Status_unimplemented(message) == Status_new("Unimplemented", message)

Ok(v) == [tag |-> "Ok", v |-> v]
Err(status) == [tag |-> "Err", v |-> status]
Some(v) == [tag |-> "Some", v |-> v]
None == [tag |-> "None"]

----------------------------------------------------------------------------
(* The generator *)

\* let package = file.package.iter().join(".")
package_of(s) == join(s.package, <<".">>)

\* The path with the method's name case-converted like a variant name.
format_path_camel(package, sname, mname) ==
    <<"/">> \o package \o <<".">> \o sname \o <<"/">> \o to_upper_camel_case(mname)

\* format!("/{}.{}/{}", package, s.name, method.name)
format_path(package, sname, mname) ==
    <<"/">> \o package \o <<".">> \o sname \o <<"/">> \o mname

\* let paths = s.methods.iter().map(...).collect()
paths_of(s) ==
    [i \in 1..Len(s.methods) |-> format_path(package_of(s), s.name, s.methods[i].name)]

\* let enum_variant_names = s.methods.iter().map(...).collect()
enum_variant_names_of(s) ==
    [i \in 1..Len(s.methods) |-> to_upper_camel_case(s.methods[i].name)]

\* let method_name = format_ident!("{}", method.name.to_snake_case())
build_server_call(method) == to_snake_case(method.name)

\* One dispatch arm: its path pattern, the variant its request decode
\* expects, the two templates chosen by the streaming tags, the handler.
req_match(s, method) ==
    [path |-> format_path(package_of(s), s.name, method.name),
     variant_name |-> to_upper_camel_case(method.name),
     client_streaming |-> method.client_streaming,
     server_streaming |-> method.server_streaming,
     handler |-> build_server_call(method)]

\* One client method: its name, the path it passes to client.call, the
\* variant it wraps the request in and expects the reply in.
client_method(s, method) ==
    [method_name |-> to_snake_case(method.name),
     path |-> format_path(package_of(s), s.name, method.name),
     variant_name |-> to_upper_camel_case(method.name),
     client_streaming |-> method.client_streaming,
     server_streaming |-> method.server_streaming]

Generate(s) ==
    [paths |-> paths_of(s),
     req_matches |-> [i \in 1..Len(s.methods) |-> req_match(s, s.methods[i])],
     enum_variant_names |-> enum_variant_names_of(s),
     client_methods |-> [i \in 1..Len(s.methods) |-> client_method(s, s.methods[i])]]

Distinct(seq) == \A i, j \in 1..Len(seq) : i # j => seq[i] # seq[j]

\* The emitted unit is a program only if the target compiler accepts it:
\* an enum with two variants of one name, or a trait with two methods of
\* one name, is rejected.
Compiles(g) ==
    /\ Distinct(g.enum_variant_names)
    /\ Distinct([i \in 1..Len(g.client_methods) |-> g.client_methods[i].method_name])

\* match method { Some(path_1) => Ok(Self::V_1(..)), ...,
\*                _ => Err(Status::new(Unimplemented, "Method not found.")) }
from_body(g, method) ==
    LET hits == {i \in 1..Len(g.paths) : method = Some(g.paths[i])}
    IN  IF hits = {}
        THEN Err(Status_new("Unimplemented", <<"Method not found.">>))
        ELSE Ok(g.enum_variant_names[CHOOSE i \in hits : \A j \in hits : i <= j])

----------------------------------------------------------------------------
(* Inputs of the generator *)

Strings(n) == UNION {[1..k -> Alphabet] : k \in 1..n}

\* Identifiers of the IDL: a letter, then letters and underscores.
Names == {s \in Strings(MaxNameLen) : is_alphanumeric(s[1])}

Method(name, cs, ss) ==
    [name |-> name, client_streaming |-> cs, server_streaming |-> ss]

\* Method lists with pairwise distinct names, as the IDL front-end requires.
NameLists == {ns \in UNION {[1..k -> Names] : k \in 0..MaxMethods} : Distinct(ns)}

\* (package, service name) of the file the service is declared in.
Homes == {[package |-> <<>>, name |-> <<"A">>],
          [package |-> << <<"a">>, <<"A", "a">> >>, name |-> <<"a", "_", "A">>]}

GenServices ==
    {[package |-> h.package, name |-> h.name,
      methods |-> [i \in 1..Len(ns) |-> Method(ns[i], FALSE, FALSE)]] :
        h \in Homes, ns \in NameLists}

\* A path no method of a drawn service has: "_" is no identifier.
UnknownPath == <<"/", "a", ".", "A", "/", "_">>

LookupKeys(g) == {Some(g.paths[i]) : i \in 1..Len(g.paths)} \cup {Some(UnknownPath), None}

----------------------------------------------------------------------------
(* Generation, and the decode tables of the emitted code *)

RtInit ==
    /\ wire = NoVal /\ link = FALSE /\ s_in = NoVal /\ s_loc = NoVal
    /\ handlerLog = <<>> /\ s_resp = NoVal /\ s_out = NoVal
    /\ c_m = 0 /\ c_resp = NoVal /\ c_loc = NoVal /\ c_out = NoVal

InitGen ==
    /\ service \in GenServices
    /\ gen = NoVal
    /\ pc = "ir"
    /\ decoded = NoVal
    /\ RtInit

codegen_service_impl ==
    /\ pc = "ir"
    /\ gen' = Generate(service)
    /\ pc' = "idle"
    /\ UNCHANGED <<service, decoded, rtvars>>

\* <Service>RequestRecv::from_body(method, body, kind)
RequestRecv_from_body ==
    /\ pc = "idle"
    /\ Compiles(gen)
    /\ \E method \in LookupKeys(gen) :
        decoded' = [table |-> "RequestRecv", method |-> method,
                    result |-> from_body(gen, method)]
    /\ UNCHANGED <<service, gen, pc, rtvars>>

\* <Service>ResponseRecv::from_body(method, body, kind)
ResponseRecv_from_body ==
    /\ pc = "idle"
    /\ Compiles(gen)
    /\ \E method \in LookupKeys(gen) :
        decoded' = [table |-> "ResponseRecv", method |-> method,
                    result |-> from_body(gen, method)]
    /\ UNCHANGED <<service, gen, pc, rtvars>>

NextGen ==
    \/ codegen_service_impl
    \/ RequestRecv_from_body
    \/ ResponseRecv_from_body

SpecGen == InitGen /\ [][NextGen]_vars

----------------------------------------------------------------------------
(* Inputs of the emitted program *)

Msgs == {"m1", "m2"}

\* (metadata, extensions) of a request or a reply.
Heads == {[metadata |-> MdEmpty, extensions |-> "e1"],
          [metadata |-> MdLead, extensions |-> "e2"]}

StreamErr == [code |-> "Unavailable", message |-> <<"stream error">>, metadata |-> MdTrail]
HandlerErr == [code |-> "NotFound", message |-> <<"handler error">>, metadata |-> MdEmpty]

Items == {Ok(m) : m \in Msgs} \cup {Err(StreamErr)}
ItemSeqs == UNION {[1..n -> Items] : n \in 0..MaxLen}
MsgSeqs == UNION {[1..n -> Msgs] : n \in 0..MaxLen}

\* What RecvStream::trailers finds once the body is drained.
TrailerOutcomes == {Ok(None), Ok(Some(MdTrail)), Err(StreamErr)}

\* A RecvStream<T>: the items it will yield, then its trailers.
RecvStream(items, trailers) == [items |-> items, trailers |-> trailers]

Request_from_parts(metadata, extensions, message) ==
    [metadata |-> metadata, extensions |-> extensions, message |-> message]

Response_from_parts(metadata, extensions, message) ==
    [metadata |-> metadata, extensions |-> extensions, message |-> message]

\* An envelope value: the variant and the stream it wraps.
Envelope(variant, stream) == [variant |-> variant, stream |-> stream]

\* StreamExt::try_next on a stream with `items` left.
try_next(items) ==
    IF items = <<>> THEN Ok(None)
    ELSE IF Head(items).tag = "Err" THEN Head(items)
    ELSE Ok(Some(Head(items).v))

\* RecvStream::trailers: the rest of the body is drained first, and an
\* error met while draining is returned.
trailers_of(items, trailers) ==
    LET bad == {i \in 1..Len(items) : items[i].tag = "Err"}
    IN  IF bad = {} THEN trailers
        ELSE items[CHOOSE i \in bad : \A j \in bad : i <= j]

\* codec::encode::encode and the decoder behind RecvStream::new: every
\* message becomes one frame and back; the stream ends at its first error.
RECURSIVE encode(_)
encode(items) ==
    IF items = <<>> THEN <<>>
    ELSE IF Head(items).tag = "Err" THEN <<Head(items)>>
    ELSE <<Ok(<<"frame", Head(items).v>>)>> \o encode(Tail(items))

decode(frames) ==
    [i \in 1..Len(frames) |->
        IF frames[i].tag = "Err" THEN frames[i] ELSE Ok(frames[i].v[2])]

\* Services the emitted program is run for: two methods, each of any of
\* the four shapes.
RtServices ==
    {[package |-> << <<"a">> >>, name |-> <<"A">>,
      methods |-> << Method(<<"a">>, cs1, ss1), Method(<<"a", "A">>, cs2, ss2) >>] :
        cs1 \in BOOLEAN, ss1 \in BOOLEAN, cs2 \in BOOLEAN, ss2 \in BOOLEAN}

Init ==
    /\ service \in RtServices
    /\ gen = NoVal
    /\ pc = "ir"
    /\ decoded = NoVal
    /\ RtInit

----------------------------------------------------------------------------
(* Pieces shared by the four envelope templates *)

\* The variant match with its guard lost: every envelope is taken.
variant_matches_any(envelope, variant_name) == TRUE

\* match message_stream { <Enum>::<Variant>(stream) => stream,
\*                        _ => return Err(Status::new(Unimplemented, "Method not found.")) }
variant_matches(envelope, variant_name) == envelope.variant = variant_name

method_not_found == Err(Status_new("Unimplemented", <<"Method not found.">>))

\* The stream pulled to its end, the last item kept.
unary_pull_last(items) ==
    [result |-> IF items = <<>> THEN Ok(None)
                ELSE IF items[Len(items)].tag = "Err" THEN items[Len(items)]
                ELSE Ok(Some(items[Len(items)].v)),
     rest |-> <<>>]

\* The one call of try_next a unary template makes: its result, and what
\* is left of the stream.
unary_pull(items) ==
    [result |-> try_next(items),
     rest |-> IF items = <<>> THEN items ELSE Tail(items)]

\* The response side's text on the request side.
missing_request_message_swapped == Status_new("Internal", <<"Missing response message.">>)

\* .ok_or_else(|| Status::new(Code::Internal, "Missing request message."))
missing_request_message == Status_new("Internal", <<"Missing request message.">>)

\* .ok_or_else(|| Status::new(Code::Internal, "Missing response message."))
missing_response_message == Status_new("Internal", <<"Missing response message.">>)

\* server: if let Some(trailers) = ... { metadata.merge(trailers); }
server_merge_trailers(metadata, trailers) ==
    IF trailers = None THEN metadata ELSE merge(metadata, trailers.v)

\* The merge with receiver and argument exchanged.
client_merge_trailers_reversed(metadata, trailers) ==
    IF trailers = None THEN metadata ELSE merge(trailers.v, metadata)

\* client: if let Some(trailers) = ... { metadata.merge(trailers); }
client_merge_trailers(metadata, trailers) ==
    IF trailers = None THEN metadata ELSE merge(metadata, trailers.v)

----------------------------------------------------------------------------
(* The emitted server: Service::call *)

VariantSet(g) == {g.enum_variant_names[i] : i \in 1..Len(g.enum_variant_names)}
InboundPaths(g) == {g.paths[i] : i \in 1..Len(g.paths)} \cup {UnknownPath}

\* Service::call(cx, req) from any peer: the future is created, nothing of
\* its body has run.  The path is always present: the transport sets it,
\* and cx.rpc_info.method().unwrap() panics without one.
Service_call ==
    /\ pc = "idle"
    /\ Compiles(gen)
    /\ \E path \in InboundPaths(gen), h \in Heads, v \in VariantSet(gen),
          items \in ItemSeqs, tr \in TrailerOutcomes :
        s_in' = [method |-> path,
                 req |-> Request_from_parts(h.metadata, h.extensions,
                                            Envelope(v, RecvStream(items, tr)))]
    /\ link' = FALSE
    /\ pc' = "s_dispatch"
    /\ UNCHANGED <<service, gen, decoded, wire, s_loc, handlerLog, s_resp, s_out,
                   c_m, c_resp, c_loc, c_out>>

\* The arm the match over the inbound path selects: the first whose
\* pattern equals it, 0 for the catch-all.
match_arm(g, path) ==
    LET hits == {i \in 1..Len(g.req_matches) : g.req_matches[i].path = path}
    IN  IF hits = {} THEN 0 ELSE CHOOSE i \in hits : \A j \in hits : i <= j

\* The catch-all with the path left out of the message.
catch_all_no_path(path) == Err(Status_unimplemented(<<"Unimplemented http path: ">>))

\* path @ _ => Err(Status::unimplemented(format!("Unimplemented http path: {}", path)))
catch_all(path) == Err(Status_unimplemented(<<"Unimplemented http path: ">> \o path))

\* build_server_req, up to its first await: req.into_parts(), the match on
\* the variant, and for a streaming request Request::from_parts.
server_dispatch ==
    /\ pc = "s_dispatch"
    /\ LET arm == match_arm(gen, s_in.method)
           req == s_in.req
       IN  IF arm = 0
           THEN /\ s_out' = catch_all(s_in.method)
                /\ pc' = "s_done"
                /\ UNCHANGED s_loc
           ELSE IF ~variant_matches(req.message, gen.req_matches[arm].variant_name)
           THEN /\ s_out' = method_not_found
                /\ pc' = "s_done"
                /\ UNCHANGED s_loc
           ELSE IF gen.req_matches[arm].client_streaming
           THEN /\ s_loc' = [arm |-> arm,
                             req |-> Request_from_parts(req.metadata, req.extensions,
                                                        req.message.stream)]
                /\ pc' = "s_invoke"
                /\ UNCHANGED s_out
           ELSE /\ s_loc' = [arm |-> arm, metadata |-> req.metadata,
                             extensions |-> req.extensions,
                             message_stream |-> req.message.stream]
                /\ pc' = "s_try_next"
                /\ UNCHANGED s_out
    /\ UNCHANGED <<service, gen, decoded, wire, link, s_in, handlerLog, s_resp,
                   c_m, c_resp, c_loc, c_out>>

\* let message = try_next(&mut message_stream).await?
\*     .ok_or_else(|| Status::new(Code::Internal, "Missing request message."))?;
server_try_next ==
    /\ pc = "s_try_next"
    /\ LET p == unary_pull(s_loc.message_stream.items)
           r == p.result
       IN  IF r.tag = "Err"
           THEN /\ s_out' = r
                /\ pc' = "s_done"
                /\ UNCHANGED s_loc
           ELSE IF r.v = None
           THEN /\ s_out' = Err(missing_request_message)
                /\ pc' = "s_done"
                /\ UNCHANGED s_loc
           ELSE /\ s_loc' = [arm |-> s_loc.arm, metadata |-> s_loc.metadata,
                             extensions |-> s_loc.extensions,
                             message_stream |->
                                 RecvStream(p.rest, s_loc.message_stream.trailers),
                             message |-> r.v.v]
                /\ pc' = "s_trailers"
                /\ UNCHANGED s_out
    /\ UNCHANGED <<service, gen, decoded, wire, link, s_in, handlerLog, s_resp,
                   c_m, c_resp, c_loc, c_out>>

\* if let Some(trailers) = message_stream.trailers().await? { metadata.merge(trailers); }
\* let req = Request::from_parts(metadata, extensions, message);
server_trailers ==
    /\ pc = "s_trailers"
    /\ LET r == trailers_of(s_loc.message_stream.items, s_loc.message_stream.trailers)
       IN  IF r.tag = "Err"
           THEN /\ s_out' = r
                /\ pc' = "s_done"
                /\ UNCHANGED s_loc
           ELSE /\ s_loc' = [arm |-> s_loc.arm,
                             req |-> Request_from_parts(
                                 server_merge_trailers(s_loc.metadata, r.v),
                                 s_loc.extensions, s_loc.message)]
                /\ pc' = "s_invoke"
                /\ UNCHANGED s_out
    /\ UNCHANGED <<service, gen, decoded, wire, link, s_in, handlerLog, s_resp,
                   c_m, c_resp, c_loc, c_out>>

\* let resp = inner.<method_name>(req) ... : the handler is entered.
server_invoke ==
    /\ pc = "s_invoke"
    /\ handlerLog' = Append(handlerLog,
                            [handler |-> gen.req_matches[s_loc.arm].handler,
                             req |-> s_loc.req])
    /\ pc' = "s_handler"
    /\ UNCHANGED <<service, gen, decoded, wire, link, s_in, s_loc, s_resp, s_out,
                   c_m, c_resp, c_loc, c_out>>

\* What a handler of the user-supplied service may return.
HandlerResults(server_streaming) ==
    {Err(HandlerErr)} \cup
    {Ok(Response_from_parts(h.metadata, h.extensions, body)) :
        h \in Heads, body \in IF server_streaming THEN ItemSeqs ELSE Msgs}

\* build_server_resp: the handler's message or stream wrapped in the
\* method's ResponseSend variant; a handler error passes through.
build_server_resp(variant_name, streaming, resp) ==
    IF resp.tag = "Err" THEN resp
    ELSE Ok(Response_from_parts(resp.v.metadata, resp.v.extensions,
                Envelope(variant_name,
                         IF streaming THEN resp.v.message
                         ELSE <<Ok(resp.v.message)>>)))

\* ... .await; then the arm's value, build_server_resp.
server_respond ==
    /\ pc = "s_handler"
    /\ LET arm == gen.req_matches[s_loc.arm]
       IN  \E resp \in HandlerResults(arm.server_streaming) :
            /\ s_resp' = resp
            /\ s_out' = build_server_resp(arm.variant_name, arm.server_streaming, resp)
    /\ pc' = "s_done"
    /\ UNCHANGED <<service, gen, decoded, wire, link, s_in, s_loc, handlerLog,
                   c_m, c_resp, c_loc, c_out>>

----------------------------------------------------------------------------
(* The emitted client: one method per IR method *)

\* What a caller may pass as `requests`: a request carrying one message,
\* or one carrying a finite stream of messages.
Requests(client_streaming) ==
    {Request_from_parts(h.metadata, h.extensions, body) :
        h \in Heads, body \in IF client_streaming THEN MsgSeqs ELSE Msgs}

\* The unary template sending an empty stream.
build_client_req_empty(streaming, requests) ==
    Request_from_parts(requests.metadata, requests.extensions,
        IF streaming
        THEN [i \in 1..Len(requests.message) |-> Ok(requests.message[i])]
        ELSE <<>>)

\* The streaming template sending one item only, as the unary one does.
build_client_req_first_only(streaming, requests) ==
    Request_from_parts(requests.metadata, requests.extensions,
        IF streaming
        THEN [i \in 1..(IF requests.message = <<>> THEN 0 ELSE 1) |-> Ok(requests.message[i])]
        ELSE <<Ok(requests.message)>>)

\* build_client_req: the stream of Result the request carries.
\* streaming: every item of the caller's stream mapped to Ok;
\* unary: stream::once(future::ready(Ok(m))).
build_client_req(streaming, requests) ==
    Request_from_parts(requests.metadata, requests.extensions,
        IF streaming
        THEN [i \in 1..Len(requests.message) |-> Ok(requests.message[i])]
        ELSE <<Ok(requests.message)>>)

\* let req = #req.map(|message| <RequestSend>::<Variant>(Box::pin(message)));
\* self.client.call(#path, req) ... : the request is handed to the transport.
client_call ==
    /\ pc = "idle"
    /\ Compiles(gen)
    /\ \E i \in 1..Len(gen.client_methods) :
        LET cm == gen.client_methods[i]
        IN  \E requests \in Requests(cm.client_streaming) :
            LET req == build_client_req(cm.client_streaming, requests)
            IN  /\ wire' = [path |-> cm.path, requests |-> requests,
                            req |-> Request_from_parts(req.metadata, req.extensions,
                                        Envelope(cm.variant_name, req.message))]
                /\ c_m' = i
    /\ pc' = "c_call"
    /\ UNCHANGED <<service, gen, decoded, link, s_in, s_loc, handlerLog, s_resp,
                   s_out, c_resp, c_loc, c_out>>

\* The transport carries the request to a server of this service: the body
\* is encoded, and on the far side RequestRecv::from_body picks the variant
\* by the path and Service::call is given the decoded request.
transport_deliver ==
    /\ pc = "c_call"
    /\ LET v == from_body(gen, Some(wire.path))
       IN  /\ v.tag = "Ok"
           /\ \E tr \in {Ok(None), Ok(Some(MdTrail))} :
               s_in' = [method |-> wire.path,
                        req |-> Request_from_parts(wire.req.metadata, wire.req.extensions,
                                    Envelope(v.v,
                                        RecvStream(decode(encode(wire.req.message.stream)),
                                                   tr)))]
    /\ link' = TRUE
    /\ pc' = "s_dispatch"
    /\ UNCHANGED <<service, gen, decoded, wire, s_loc, handlerLog, s_resp, s_out,
                   c_m, c_resp, c_loc, c_out>>

\* The transport brings back what Service::call returned: a status as the
\* error of client.call, a response with its body decoded and
\* ResponseRecv::from_body picking the variant by the path.
transport_return ==
    /\ pc = "s_done"
    /\ link
    /\ IF s_out.tag = "Err"
       THEN c_resp' = s_out
       ELSE LET v == from_body(gen, Some(wire.path))
            IN  /\ v.tag = "Ok"
                /\ \E tr \in {Ok(None), Ok(Some(MdTrail))} :
                    c_resp' = Ok(Response_from_parts(s_out.v.metadata, s_out.v.extensions,
                                    Envelope(v.v,
                                        RecvStream(decode(encode(s_out.v.message.stream)),
                                                   tr))))
    /\ pc' = "c_resp"
    /\ UNCHANGED <<service, gen, decoded, wire, link, s_in, s_loc, handlerLog, s_resp,
                   s_out, c_m, c_loc, c_out>>

\* client.call answered by any peer: an error, or a reply of any variant
\* with any stream.
transport_reply ==
    /\ pc = "c_call"
    /\ \/ c_resp' = Err(StreamErr)
       \/ \E h \in Heads, v \in VariantSet(gen), items \in ItemSeqs,
             tr \in TrailerOutcomes :
            c_resp' = Ok(Response_from_parts(h.metadata, h.extensions,
                            Envelope(v, RecvStream(items, tr))))
    /\ wire' = NoVal
    /\ pc' = "c_resp"
    /\ UNCHANGED <<service, gen, decoded, link, s_in, s_loc, handlerLog, s_resp,
                   s_out, c_m, c_loc, c_out>>

\* `.await?` on client.call, then build_client_resp up to its first await:
\* resp.into_parts(), the match on the variant, and for a streaming
\* response Response::from_parts.
client_resp ==
    /\ pc = "c_resp"
    /\ LET cm == gen.client_methods[c_m]
       IN  IF c_resp.tag = "Err"
           THEN /\ c_out' = c_resp
                /\ pc' = "c_done"
                /\ UNCHANGED c_loc
           ELSE IF ~variant_matches(c_resp.v.message, cm.variant_name)
           THEN /\ c_out' = method_not_found
                /\ pc' = "c_done"
                /\ UNCHANGED c_loc
           ELSE IF cm.server_streaming
           THEN /\ c_out' = Ok(Response_from_parts(c_resp.v.metadata, c_resp.v.extensions,
                                                   c_resp.v.message.stream))
                /\ pc' = "c_done"
                /\ UNCHANGED c_loc
           ELSE /\ c_loc' = [metadata |-> c_resp.v.metadata,
                             extensions |-> c_resp.v.extensions,
                             message_stream |-> c_resp.v.message.stream]
                /\ pc' = "c_try_next"
                /\ UNCHANGED c_out
    /\ UNCHANGED <<service, gen, decoded, wire, link, s_in, s_loc, handlerLog, s_resp,
                   s_out, c_m, c_resp>>

\* The error of try_next as the client returns it:
\* .map_err(|mut status| { status.metadata_mut().merge(metadata.clone()); status })
map_err_merge(status, metadata) ==
    [code |-> status.code, message |-> status.message,
     metadata |-> merge(status.metadata, metadata)]

\* let message = try_next(&mut message_stream).await.map_err(..)?
\*     .ok_or_else(|| Status::new(Code::Internal, "Missing response message."))?;
client_try_next ==
    /\ pc = "c_try_next"
    /\ LET p == unary_pull(c_loc.message_stream.items)
           r == p.result
       IN  IF r.tag = "Err"
           THEN /\ c_out' = Err(map_err_merge(r.v, c_loc.metadata))
                /\ pc' = "c_done"
                /\ UNCHANGED c_loc
           ELSE IF r.v = None
           THEN /\ c_out' = Err(missing_response_message)
                /\ pc' = "c_done"
                /\ UNCHANGED c_loc
           ELSE /\ c_loc' = [metadata |-> c_loc.metadata,
                             extensions |-> c_loc.extensions,
                             message_stream |->
                                 RecvStream(p.rest, c_loc.message_stream.trailers),
                             message |-> r.v.v]
                /\ pc' = "c_trailers"
                /\ UNCHANGED c_out
    /\ UNCHANGED <<service, gen, decoded, wire, link, s_in, s_loc, handlerLog, s_resp,
                   s_out, c_m, c_resp>>

\* if let Some(trailers) = message_stream.trailers().await? { metadata.merge(trailers); }
\* Ok(Response::from_parts(metadata, extensions, message))
client_trailers ==
    /\ pc = "c_trailers"
    /\ LET r == trailers_of(c_loc.message_stream.items, c_loc.message_stream.trailers)
       IN  IF r.tag = "Err"
           THEN c_out' = r
           ELSE c_out' = Ok(Response_from_parts(
                                client_merge_trailers(c_loc.metadata, r.v),
                                c_loc.extensions, c_loc.message))
    /\ pc' = "c_done"
    /\ UNCHANGED <<service, gen, decoded, wire, link, s_in, s_loc, handlerLog, s_resp,
                   s_out, c_m, c_resp, c_loc>>

\* The call is over and its values are dropped.
finish ==
    /\ \/ pc = "c_done"
       \/ pc = "s_done" /\ ~link
    /\ pc' = "idle"
    /\ wire' = NoVal /\ link' = FALSE /\ s_in' = NoVal /\ s_loc' = NoVal
    /\ handlerLog' = <<>> /\ s_resp' = NoVal /\ s_out' = NoVal
    /\ c_m' = 0 /\ c_resp' = NoVal /\ c_loc' = NoVal /\ c_out' = NoVal
    /\ UNCHANGED <<service, gen, decoded>>

Next ==
    \/ codegen_service_impl
    \/ Service_call
    \/ server_dispatch
    \/ server_try_next
    \/ server_trailers
    \/ server_invoke
    \/ server_respond
    \/ client_call
    \/ transport_deliver
    \/ transport_return
    \/ transport_reply
    \/ client_resp
    \/ client_try_next
    \/ client_trailers
    \/ finish

Spec == Init /\ [][Next]_vars

----------------------------------------------------------------------------
(* Properties of the generator (checked under SpecGen) *)

\* p is "/" + package + "." + sname + "/" + mname, character by character.
IsPathOf(p, package, sname, mname) ==
    LET a == Len(package)
        b == Len(sname)
        c == Len(mname)
    IN  /\ Len(p) = a + b + c + 3
        /\ p[1] = "/"
        /\ SubSeq(p, 2, a + 1) = package
        /\ p[a + 2] = "."
        /\ SubSeq(p, a + 3, a + b + 2) = sname
        /\ p[a + b + 3] = "/"
        /\ SubSeq(p, a + b + 4, a + b + c + 3) = mname

\* C1: every method's path is "/" + the package segments joined by "." +
\* "." + the service's name + "/" + the method's name, both names verbatim;
\* the decode tables, the server arm and the client method of the method
\* all carry that one string; methods with different names have different
\* paths.
C1_PathFormat ==
    pc # "ir" =>
        /\ Len(gen.paths) = Len(service.methods)
        /\ \A i \in 1..Len(service.methods) :
            /\ IsPathOf(gen.paths[i], join(service.package, <<".">>), service.name,
                        service.methods[i].name)
            /\ gen.req_matches[i].path = gen.paths[i]
            /\ gen.client_methods[i].path = gen.paths[i]
            /\ \A j \in 1..Len(service.methods) :
                service.methods[i].name # service.methods[j].name
                    => gen.paths[i] # gen.paths[j]

\* Generated for a service in a two-segment package with two methods, one
\* of whose names is changed by the variant-name conversion.
C1_Witness ==
    /\ pc = "idle"
    /\ Len(service.package) = 2
    /\ Len(service.methods) = 2
    /\ \E i \in 1..2 :
        to_upper_camel_case(service.methods[i].name) # service.methods[i].name

\* C2: in a service whose methods have pairwise distinct names, the
\* envelopes have one variant per method (the upper-camel-case form of its
\* name) and no two methods share a variant; a decode table looked up with
\* a method's path gives that method's variant, and with any other path or
\* none gives Unimplemented.
C2_EnvelopeBijection ==
    (pc # "ir" /\ Distinct([i \in 1..Len(service.methods) |-> service.methods[i].name])) =>
        /\ Len(gen.enum_variant_names) = Len(service.methods)
        /\ \A i \in 1..Len(service.methods) :
            gen.enum_variant_names[i] = to_upper_camel_case(service.methods[i].name)
        /\ Distinct(gen.enum_variant_names)
        /\ decoded # NoVal =>
            LET hits == {i \in 1..Len(gen.paths) : decoded.method = Some(gen.paths[i])}
            IN  IF hits = {}
                THEN /\ decoded.result.tag = "Err"
                     /\ decoded.result.v.code = "Unimplemented"
                ELSE \A i \in hits : decoded.result = Ok(gen.enum_variant_names[i])

----------------------------------------------------------------------------
(* Properties of the emitted program (checked under Spec) *)

Arms == IF gen = NoVal THEN {} ELSE 1..Len(gen.req_matches)

ArmsAt(path) == {i \in Arms : gen.req_matches[i].path = path}

AllOk(items) == \A i \in 1..Len(items) : items[i].tag = "Ok"

Contains(s, sub) ==
    \E k \in 0..Len(s) : k + Len(sub) <= Len(s) /\ SubSeq(s, k + 1, k + Len(sub)) = sub

\* The server is on an arm i whose request is unary and whose variant the
\* inbound envelope carries.
SrvUnaryOn(i) ==
    /\ s_in # NoVal
    /\ i \in ArmsAt(s_in.method)
    /\ ~gen.req_matches[i].client_streaming
    /\ s_in.req.message.variant = gen.req_matches[i].variant_name

\* The client got a reply of its method's variant and its response is unary.
CliUnary ==
    /\ c_resp # NoVal
    /\ c_resp.tag = "Ok"
    /\ ~gen.client_methods[c_m].server_streaming
    /\ c_resp.v.message.variant = gen.client_methods[c_m].variant_name

\* What a stream gives a unary template that pulls one item and then asks
\* for the trailers: the first error on that way, if any.
FirstError(stream) ==
    IF stream.items = <<>> THEN Ok(None)
    ELSE IF stream.items[1].tag = "Err" THEN stream.items[1]
    ELSE trailers_of(Tail(stream.items), stream.trailers)

\* C3: a call whose inbound path is no method's path returns Unimplemented
\* with the path in its message, and no handler is invoked.
C3_UnknownPath ==
    (s_in # NoVal /\ ArmsAt(s_in.method) = {}) =>
        /\ handlerLog = <<>>
        /\ s_resp = NoVal
        /\ pc \in {"s_dispatch", "s_done"}
        /\ pc = "s_done" =>
            /\ s_out.tag = "Err"
            /\ s_out.v.code = "Unimplemented"
            /\ Contains(s_out.v.message, s_in.method)

C3_Witness ==
    /\ pc = "s_done"
    /\ s_in.method = UnknownPath
    /\ s_out.tag = "Err"

\* C4: a unary request stream that ends with no message and no error makes
\* the server call fail with Internal "Missing request message." and no
\* handler call; a unary response stream that ends so makes the client
\* method fail with Internal "Missing response message.".
C4_MissingMessage ==
    /\ \A i \in Arms :
        (SrvUnaryOn(i) /\ s_in.req.message.stream.items = <<>>) =>
            /\ handlerLog = <<>>
            /\ s_out # NoVal =>
                /\ s_out.tag = "Err"
                /\ s_out.v.code = "Internal"
                /\ s_out.v.message = <<"Missing request message.">>
    /\ (CliUnary /\ c_resp.v.message.stream.items = <<>> /\ c_out # NoVal) =>
            /\ c_out.tag = "Err"
            /\ c_out.v.code = "Internal"
            /\ c_out.v.message = <<"Missing response message.">>

C4_Witness ==
    /\ pc = "s_done"
    /\ \E i \in Arms : SrvUnaryOn(i)
    /\ s_in.req.message.stream.items = <<>>
    /\ s_out.tag = "Err"

C4_WitnessClient ==
    /\ pc = "c_done"
    /\ CliUnary
    /\ c_resp.v.message.stream.items = <<>>
    /\ c_out.tag = "Err"

\* C5: a unary response stream that yields its message and then trailing
\* metadata gives a Response with that message and the leading metadata
\* merged with the trailing; with no trailing metadata the leading metadata
\* is returned as it came; the extensions are the reply's in both cases.
C5_TrailerMerge ==
    (/\ CliUnary
     /\ c_resp.v.message.stream.items # <<>>
     /\ AllOk(c_resp.v.message.stream.items)
     /\ c_out # NoVal) =>
        LET lead == c_resp.v.metadata
            tr == c_resp.v.message.stream.trailers
            m == c_resp.v.message.stream.items[1].v
        IN  /\ (tr.tag = "Ok" /\ tr.v # None) =>
                c_out = Ok([metadata |-> merge(lead, tr.v.v),
                            extensions |-> c_resp.v.extensions, message |-> m])
            /\ tr = Ok(None) =>
                c_out = Ok([metadata |-> lead,
                            extensions |-> c_resp.v.extensions, message |-> m])

C5_Witness ==
    /\ pc = "c_done"
    /\ CliUnary
    /\ c_out.tag = "Ok"
    /\ c_resp.v.metadata = MdLead
    /\ c_resp.v.message.stream.trailers = Ok(Some(MdTrail))
    /\ c_out.v.metadata \notin {MdLead, MdTrail}

\* C6: the message a client passes to a method with a unary request
\* reaches the server as a stream of exactly that one message, and the
\* method's handler is invoked once, with that message.
C6_UnaryRoundTrip ==
    (link /\ ~gen.client_methods[c_m].client_streaming) =>
        /\ s_in.req.message.stream.items = <<Ok(wire.requests.message)>>
        /\ Len(handlerLog) <= 1
        /\ handlerLog # <<>> =>
            /\ handlerLog[1].handler = gen.client_methods[c_m].method_name
            /\ handlerLog[1].req.message = wire.requests.message
        /\ s_out # NoVal => Len(handlerLog) = 1

C6_Witness ==
    /\ link
    /\ ~gen.client_methods[c_m].client_streaming
    /\ pc = "s_handler"
    /\ handlerLog[1].req.message = "m2"

\* C7: for a method streaming both ways, the N messages of the client
\* reach the handler in order and in number, and the N' messages of the
\* handler's stream reach the client's caller in order and in number.
C7_StreamingRoundTrip ==
    (link /\ gen.client_methods[c_m].client_streaming
          /\ gen.client_methods[c_m].server_streaming) =>
        /\ Len(handlerLog) <= 1
        /\ handlerLog # <<>> =>
            handlerLog[1].req.message.items =
                [i \in 1..Len(wire.requests.message) |-> Ok(wire.requests.message[i])]
        /\ s_out # NoVal => handlerLog # <<>>
        /\ (c_out # NoVal /\ s_resp.tag = "Ok" /\ AllOk(s_resp.v.message)) =>
            /\ c_out.tag = "Ok"
            /\ c_out.v.message.items = s_resp.v.message

C7_Witness ==
    /\ link
    /\ gen.client_methods[c_m].client_streaming
    /\ gen.client_methods[c_m].server_streaming
    /\ pc = "c_done"
    /\ c_out.tag = "Ok"
    /\ wire.requests.message = <<"m1", "m2">>
    /\ c_out.v.message.items = <<Ok("m2"), Ok("m1")>>

\* C8: on the client's unary response path every error of the response
\* stream, met while pulling the message or while awaiting the trailers,
\* is returned with the leading metadata merged into its metadata, code
\* and message as they were; on the server's unary request path a stream
\* error is returned as it is.
C8_ErrorMerge ==
    /\ (CliUnary /\ c_out # NoVal) =>
        LET e == FirstError(c_resp.v.message.stream)
        IN  e.tag = "Err" =>
                c_out = Err([code |-> e.v.code, message |-> e.v.message,
                             metadata |-> merge(e.v.metadata, c_resp.v.metadata)])
    /\ \A i \in Arms :
        (SrvUnaryOn(i) /\ s_out # NoVal) =>
            LET e == FirstError(s_in.req.message.stream)
            IN  e.tag = "Err" => s_out = e

\* C9: the handler of a method is invoked at most once, and only on that
\* method's path after the request decode succeeded; a variant mismatch
\* returns Unimplemented "Method not found."; with no handler call there
\* is no handler result and no response envelope.
C9_ServerOrder ==
    s_in # NoVal =>
        /\ Len(handlerLog) <= 1
        /\ handlerLog # <<>> =>
            \E i \in Arms :
                LET arm == gen.req_matches[i]
                    stream == s_in.req.message.stream
                IN  /\ handlerLog[1].handler = to_snake_case(service.methods[i].name)
                    /\ s_in.method = gen.paths[i]
                    /\ s_in.req.message.variant = gen.enum_variant_names[i]
                    /\ IF arm.client_streaming
                       THEN handlerLog[1].req.message = stream
                       ELSE /\ stream.items # <<>>
                            /\ stream.items[1].tag = "Ok"
                            /\ FirstError(stream).tag = "Ok"
                            /\ handlerLog[1].req.message = stream.items[1].v
        /\ handlerLog = <<>> =>
            /\ s_resp = NoVal
            /\ s_out # NoVal => s_out.tag = "Err"
        /\ \A i \in ArmsAt(s_in.method) :
            (s_in.req.message.variant # gen.req_matches[i].variant_name /\ s_out # NoVal)
                => /\ s_out.tag = "Err"
                   /\ s_out.v.code = "Unimplemented"
                   /\ s_out.v.message = <<"Method not found.">>

C9_Witness ==
    /\ pc = "s_done"
    /\ ~link
    /\ Len(handlerLog) = 1
    /\ s_out.tag = "Ok"
    /\ \E i \in Arms : SrvUnaryOn(i)

\* C10: on a unary path a stream of more than one message gives its first
\* message to the handler or caller; the later ones are not delivered and
\* raise no error.
C10_ExcessIgnored ==
    /\ \A i \in Arms :
        (/\ SrvUnaryOn(i)
         /\ Len(s_in.req.message.stream.items) >= 2
         /\ AllOk(s_in.req.message.stream.items)
         /\ s_in.req.message.stream.trailers.tag = "Ok") =>
            /\ handlerLog # <<>> =>
                /\ Len(handlerLog) = 1
                /\ handlerLog[1].req.message = s_in.req.message.stream.items[1].v
            /\ s_out # NoVal =>
                /\ handlerLog # <<>>
                /\ s_out.tag = "Err" => s_out = s_resp
    /\ (/\ CliUnary
        /\ Len(c_resp.v.message.stream.items) >= 2
        /\ AllOk(c_resp.v.message.stream.items)
        /\ c_resp.v.message.stream.trailers.tag = "Ok"
        /\ c_out # NoVal) =>
            /\ c_out.tag = "Ok"
            /\ c_out.v.message = c_resp.v.message.stream.items[1].v

C10_Witness ==
    /\ pc = "s_done"
    /\ \E i \in Arms : SrvUnaryOn(i)
    /\ Len(s_in.req.message.stream.items) >= 2
    /\ AllOk(s_in.req.message.stream.items)
    /\ s_in.req.message.stream.items[1] # s_in.req.message.stream.items[2]
    /\ Len(handlerLog) = 1
    /\ s_out.tag = "Ok"

====
